---------------------------- MODULE Spec2Model ----------------------------
(***************************************************************************)
(* LukiWiki parser: the HTML sanitizer (src/src/sanitizer.rs) and the      *)
(* parse pipeline (src/src/lib.rs).                                        *)
(*                                                                         *)
(* Text is a sequence of characters; a character is a one-character        *)
(* string.  Two characters that TLA+ strings cannot hold are written by    *)
(* their escape: "\\u0001" is U+0001 (a control character) and "\\u00e9"   *)
(* is U+00E9 (a non-ASCII letter, two bytes in UTF-8).                     *)
(***************************************************************************)
EXTENDS Integers, Sequences, FiniteSets, TLC

VARIABLES
    san_pc,        \* position of the sanitizer harness: "off", "input", "once", "twice"
    san_in,        \* the text handed to sanitize
    san_pieces,    \* what each iteration of sanitize's loop pushed onto `result`
    san_out,       \* sanitize(san_in)
    san_twice,     \* sanitize(sanitize(san_in))
    pc,            \* position inside parse_with_frontmatter
    input,         \* the document of the call
    frontmatter_data, \* Option<Frontmatter> of step 0
    content,       \* the body of step 0
    preprocessed,  \* the token-bearing body of step 1 (one String)
    sanitized,     \* the text of step 2
    html,          \* the external renderer's HTML of step 3
    final_html,    \* the HTML of step 4
    stages,        \* the stages run so far, in order
    result,        \* the returned value: ParseResult, or the html String of parse
    conflict_table \* module lukiwiki: the invocation table of the running call

san_vars == <<san_pc, san_in, san_pieces, san_out, san_twice>>
parse_vars == <<pc, input, frontmatter_data, content, preprocessed,
                sanitized, html, final_html, stages, result>>
\* parse_with_frontmatter hands only text from stage to stage, so the table
\* that the Encoder builds and the Decoder looks its tokens up in is kept by
\* module lukiwiki between the two calls
lukiwiki_vars == <<conflict_table>>
vars == <<san_pc, san_in, san_pieces, san_out, san_twice,
          pc, input, frontmatter_data, content, preprocessed,
          sanitized, html, final_html, stages, result, conflict_table>>

-----------------------------------------------------------------------------
(* Bounds of the model.                                                    *)

\* longest text drawn from SanAlphabet in all combinations
MaxLen == 4
\* longest run of digits (or hex digits) after '#' in a numeric candidate
MaxDigits == 11
\* most segments a document is assembled from
MaxSegs == 2

-----------------------------------------------------------------------------
(* Text helpers (str methods used by the code).                            *)

Control == "\\u0001"
EAcute == "\\u00e9"

LowerCase == {"a","b","c","d","e","f","g","h","i","j","k","l","m",
              "n","o","p","q","r","s","t","u","v","w","x","y","z"}
UpperCase == {"A","B","C","D","E","F","G","H","I","J","K","L","M",
              "N","O","P","Q","R","S","T","U","V","W","X","Y","Z"}
DecDigit == {"0","1","2","3","4","5","6","7","8","9"}

\* char::is_ascii_digit
is_ascii_digit(c) == c \in DecDigit

\* char::is_ascii_hexdigit
is_ascii_hexdigit(c) ==
    c \in DecDigit \cup {"a","b","c","d","e","f","A","B","C","D","E","F"}

\* char::is_alphanumeric: Unicode Alphabetic or Numeric, so U+00E9 too
is_alphanumeric(c) == c \in LowerCase \cup UpperCase \cup DecDigit \cup {EAcute}

\* char::len_utf8: the bytes a character adds to String::len
len_utf8(c) == IF c = EAcute THEN 2 ELSE 1

\* the pattern pat occurs in s at index i
MatchAt(pat, s, i) ==
    /\ i >= 1
    /\ i + Len(pat) - 1 <= Len(s)
    /\ \A k \in 1..Len(pat) : s[i + k - 1] = pat[k]

\* str::contains
Contains(s, pat) == \E i \in 1..(Len(s) + 1) : MatchAt(pat, s, i)

\* the concatenation of the texts ss[lo..hi], in order
RECURSIVE FlattenRange(_, _, _)
FlattenRange(ss, lo, hi) ==
    IF lo > hi THEN <<>>
    ELSE IF lo = hi THEN ss[lo]
    ELSE LET mid == (lo + hi) \div 2
         IN  FlattenRange(ss, lo, mid) \o FlattenRange(ss, mid + 1, hi)

\* the concatenation of a sequence of texts
Flatten(ss) == FlattenRange(ss, 1, Len(ss))

\* the first index >= from at which a character of the set cs stands, or 0
IndexOfAny(s, cs, from) ==
    IF \E j \in from..Len(s) : s[j] \in cs
    THEN CHOOSE j \in from..Len(s) :
             s[j] \in cs /\ \A k \in from..(j - 1) : s[k] \notin cs
    ELSE 0

\* str::find from index from on: the first index at which pat occurs, or 0
\* (the empty pattern occurs at every index, the one after the end included)
Find(s, pat, from) ==
    IF \E j \in from..(Len(s) + 1) : MatchAt(pat, s, j)
    THEN CHOOSE j \in from..(Len(s) + 1) :
             MatchAt(pat, s, j) /\ \A k \in from..(j - 1) : ~MatchAt(pat, s, k)
    ELSE 0

\* str::matches(pat).count() from index i on: the occurrences of pat that do
\* not overlap, leftmost first
RECURSIVE CountFrom(_, _, _)
CountFrom(s, pat, i) ==
    LET m == Find(s, pat, i)
    IN  IF m = 0 THEN 0
        ELSE 1 + CountFrom(s, pat, m + (IF pat = <<>> THEN 1 ELSE Len(pat)))

Count(s, pat) == CountFrom(s, pat, 1)

\* s[from..] (1-based, to the end)
From(s, from) == SubSeq(s, from, Len(s))

\* str::trim (the whitespace of the model is ' ' and '\n')
IsSpace(c) == c \in {" ", "\n"}

RECURSIVE TrimStart(_)
TrimStart(s) == IF s # <<>> /\ IsSpace(Head(s)) THEN TrimStart(Tail(s)) ELSE s

RECURSIVE TrimEnd(_)
TrimEnd(s) ==
    IF s # <<>> /\ IsSpace(s[Len(s)]) THEN TrimEnd(SubSeq(s, 1, Len(s) - 1)) ELSE s

Trim(s) == TrimEnd(TrimStart(s))

-----------------------------------------------------------------------------
(* src/src/sanitizer.rs                                                    *)

Lt == <<"&", "l", "t", ";">>
Gt == <<"&", "g", "t", ";">>
Amp == <<"&", "a", "m", "p", ";">>

\* the allow-list of is_valid_entity's matches!
NamedEntities ==
    { <<"n", "b", "s", "p">>, <<"l", "t">>, <<"g", "t">>, <<"a", "m", "p">>, <<"q", "u", "o", "t">>, <<"a", "p", "o", "s">>, <<"c", "o", "p", "y">>,
      <<"r", "e", "g">>, <<"t", "r", "a", "d", "e">>, <<"n", "d", "a", "s", "h">>, <<"m", "d", "a", "s", "h">>, <<"l", "s", "q", "u", "o">>, <<"r", "s", "q", "u", "o">>,
      <<"l", "d", "q", "u", "o">>, <<"r", "d", "q", "u", "o">>, <<"h", "e", "l", "l", "i", "p">>, <<"p", "r", "i", "m", "e">>, <<"P", "r", "i", "m", "e">>, <<"e", "u", "r", "o">>,
      <<"y", "e", "n">>, <<"p", "o", "u", "n", "d">>, <<"c", "e", "n", "t">>, <<"t", "i", "m", "e", "s">>, <<"d", "i", "v", "i", "d", "e">>, <<"p", "l", "u", "s", "m", "n">>,
      <<"m", "i", "n", "u", "s">>, <<"a", "l", "p", "h", "a">>, <<"b", "e", "t", "a">>, <<"g", "a", "m", "m", "a">>, <<"d", "e", "l", "t", "a">>, <<"e", "p", "s", "i", "l", "o", "n">>,
      <<"A", "l", "p", "h", "a">>, <<"B", "e", "t", "a">>, <<"G", "a", "m", "m", "a">>, <<"D", "e", "l", "t", "a">>, <<"E", "p", "s", "i", "l", "o", "n">> }

\* the `entity.len() > 10` of is_html_entity
EntityLenLimit == 10

\* a plausible slip: the `entity.len() < 2` check is missing, so "#" passes
is_valid_entity_no_len_check(entity) ==
    IF entity = <<>> THEN FALSE
    ELSE IF Head(entity) = "#"
         THEN IF Len(entity) >= 2 /\ entity[2] \in {"x", "X"}
              THEN /\ Len(entity) >= 3
                   /\ \A k \in 3..Len(entity) : is_ascii_hexdigit(entity[k])
              ELSE \A k \in 2..Len(entity) : is_ascii_digit(entity[k])
         ELSE entity \in NamedEntities

\* a plausible slip: "amp" is missing from the allow-list
is_valid_entity_no_amp(entity) ==
    IF entity = <<>> THEN FALSE
    ELSE IF Head(entity) = "#"
         THEN IF Len(entity) < 2 THEN FALSE
              ELSE IF entity[2] \in {"x", "X"}
                   THEN /\ Len(entity) >= 3
                        /\ \A k \in 3..Len(entity) : is_ascii_hexdigit(entity[k])
                   ELSE \A k \in 2..Len(entity) : is_ascii_digit(entity[k])
         ELSE entity \in NamedEntities \ { <<"a", "m", "p">> }

\* is_valid_entity: the body between '&' and ';'
is_valid_entity(entity) ==
    IF entity = <<>> THEN FALSE
    ELSE IF Head(entity) = "#"
         THEN IF Len(entity) < 2 THEN FALSE
              ELSE IF entity[2] \in {"x", "X"}
                   THEN /\ Len(entity) >= 3
                        /\ \A k \in 3..Len(entity) : is_ascii_hexdigit(entity[k])
                   ELSE \A k \in 2..Len(entity) : is_ascii_digit(entity[k])
         ELSE entity \in NamedEntities

\* the while-let loop of is_html_entity: s[j] is the peeked character, entity
\* the characters pushed so far and bytes its String::len
RECURSIVE EntityScan(_, _, _, _)
EntityScan(s, j, entity, bytes) ==
    IF j > Len(s) THEN FALSE
    ELSE IF s[j] = ";" THEN is_valid_entity(entity)
    ELSE IF bytes > EntityLenLimit THEN FALSE
    ELSE IF ~is_alphanumeric(s[j]) /\ s[j] # "#" /\ s[j] # "x" /\ s[j] # "X"
         THEN FALSE
    ELSE EntityScan(s, j + 1, Append(entity, s[j]), bytes + len_utf8(s[j]))

\* is_html_entity on the iterator standing after the '&' at index amp
is_html_entity(s, amp) == EntityScan(s, amp + 1, <<>>, 0)

\* a plausible slip: the '>' arm is missing from the match
MatchArm_no_gt(s, i) ==
    CASE s[i] = "<" -> Lt
      [] s[i] = "&" -> IF is_html_entity(s, i) THEN <<"&">> ELSE Amp
      [] OTHER -> <<s[i]>>

\* the match arm of sanitize's loop: what the iteration on s[i] pushes
MatchArm(s, i) ==
    CASE s[i] = "<" -> Lt
      [] s[i] = ">" -> Gt
      [] s[i] = "&" -> IF is_html_entity(s, i) THEN <<"&">> ELSE Amp
      [] OTHER -> <<s[i]>>

\* the pushes of the whole loop, one per character of the input
LoopPieces(s) == [i \in 1..Len(s) |-> MatchArm(s, i)]

\* a plausible slip: the lookahead runs on `chars` itself, not on a clone, so
\* the characters it peeked past after a failed '&' are consumed
RECURSIVE SkipScan(_, _)
SkipScan(s, j) ==
    IF j > Len(s) \/ s[j] = ";" THEN j
    ELSE IF ~is_alphanumeric(s[j]) /\ s[j] # "#" THEN j
    ELSE SkipScan(s, j + 1)

RECURSIVE SanitizeSkipFrom(_, _)
SanitizeSkipFrom(s, i) ==
    IF i > Len(s) THEN <<>>
    ELSE IF s[i] = "&" /\ ~is_html_entity(s, i)
         THEN Amp \o SanitizeSkipFrom(s, SkipScan(s, i + 1))
         ELSE MatchArm(s, i) \o SanitizeSkipFrom(s, i + 1)

sanitize_consuming(s) ==
    IF ~\E i \in 1..Len(s) : s[i] \in {"<", ">", "&"} THEN s
    ELSE SanitizeSkipFrom(s, 1)

\* sanitize: the fast path, else the loop's result
sanitize(s) ==
    IF ~\E i \in 1..Len(s) : s[i] \in {"<", ">", "&"} THEN s
    ELSE Flatten(LoopPieces(s))

-----------------------------------------------------------------------------
(* The sanitizer on its own: sanitize applied to a text, then to its own   *)
(* output.                                                                 *)

SanAlphabet == {"&", "<", ">", ";", "#", "1", "l", "t"}

\* every text over SanAlphabet of length at most n
RECURSIVE TextsUpTo(_)
TextsUpTo(n) ==
    IF n = 0 THEN {<<>>}
    ELSE LET shorter == TextsUpTo(n - 1)
         IN  shorter \cup {Append(t, c) : t \in {u \in shorter : Len(u) = n - 1},
                                          c \in SanAlphabet}

DigitCycle == <<"1", "2", "3", "4", "5", "6", "7", "8", "9", "0">>
HexCycle == <<"7", "B", "a", "F", "0", "c", "9", "E", "d", "1">>

DigitRun(k) == [i \in 1..k |-> DigitCycle[((i - 1) % 10) + 1]]
HexRun(k) == [i \in 1..k |-> HexCycle[((i - 1) % 10) + 1]]

NumericBodies ==
    {<<"#">> \o DigitRun(k) : k \in 0..MaxDigits}
    \cup {<<"#", "x">> \o HexRun(k) : k \in 0..MaxDigits}
    \cup {<<"#", "X">> \o HexRun(k) : k \in 0..MaxDigits}

OtherBodies ==
    { <<>>, <<"i", "n", "v", "a", "l", "i", "d">>, <<"N", "B", "S", "P">>, <<"L", "t">>, <<"b", "r">>, <<"x">>, <<"a", "b", "c", "d", "e", "f", "g", "h", "i", "j">>,
      <<"a", "b", "c", "d", "e", "f", "g", "h", "i", "j", "k">>, <<"a", "b", "c", "d", "e", "f", "g", "h", "i", "j", "k", "l">>, <<"n", "b", " ", "s", "p">>, <<EAcute>>,
      <<"n", "b", "s", "p", EAcute>>, <<"n", "<">>, <<"a", "&", "b">>, <<"#", "1", "a">>, <<"#", "x", "g">>,
      <<"#", "x", "1", "G">>, <<"#", "#">>, <<"#", "-", "1">>, <<"x", "4", "1">>, <<"#", Control>> }

Bodies == NamedEntities \cup NumericBodies \cup OtherBodies

Before == { <<>>, <<"<">>, <<"&">>, <<"a", " ">> }
After == { <<";">>, <<>>, <<";", ">">>, <<" ", ";">>, <<";", "b">> }

Candidates == {p \o <<"&">> \o b \o q : p \in Before, b \in Bodies, q \in After}

\* texts of the crate's tests and documentation
TestTexts ==
    { <<"H", "e", "l", "l", "o", " ", "W", "o", "r", "l", "d">>, <<"<", "s", "c", "r", "i", "p", "t", ">", "a", "l", "e", "r", "t", "(", "'", "x", "s", "s", "'", ")", "<", "/", "s", "c", "r", "i", "p", "t", ">">>, <<"H", "e", "l", "l", "o", "&", "n", "b", "s", "p", ";", "W", "o", "r", "l", "d">>,
      <<"A", " ", "&", " ", "B">>, <<"<", "d", "i", "v", ">", "H", "e", "l", "l", "o", "&", "n", "b", "s", "p", ";", "W", "o", "r", "l", "d", " ", "&", "a", "m", "p", ";", " ", "s", "t", "u", "f", "f", "<", "/", "d", "i", "v", ">">>, <<"&", "#", "1", "2", "3", ";", " ", "&", "#", "x", "7", "B", ";">>,
      <<"<", "s", "v", "g", "/", "o", "n", "l", "o", "a", "d", "=", "a", "l", "e", "r", "t", "(", "1", ")", ">">>, <<"H", "e", "l", "l", "o", "&", "n", "b", "s", "p", ";", "W", "o", "r", "l", "d", " ", "&", "l", "t", ";", "t", "a", "g", "&", "g", "t", ";">> }

SanInputs == TextsUpTo(MaxLen) \cup Candidates \cup TestTexts

ParseIdle ==
    /\ pc = "off"
    /\ input = <<>>
    /\ frontmatter_data = <<>>
    /\ content = <<>>
    /\ preprocessed = <<>>
    /\ sanitized = <<>>
    /\ html = <<>>
    /\ final_html = <<>>
    /\ stages = <<>>
    /\ result = <<>>
    /\ conflict_table = <<>>

SanInit ==
    /\ san_pc = "input"
    /\ san_in \in SanInputs
    /\ san_pieces = <<>>
    /\ san_out = <<>>
    /\ san_twice = <<>>
    /\ ParseIdle

\* sanitize(san_in)
SanitizeOnce ==
    /\ san_pc = "input"
    /\ san_pieces' = LoopPieces(san_in)
    /\ san_out' = sanitize(san_in)
    /\ san_pc' = "once"
    /\ UNCHANGED <<san_in, san_twice>>
    /\ UNCHANGED parse_vars
    /\ UNCHANGED lukiwiki_vars

\* sanitize(sanitize(san_in))
SanitizeTwice ==
    /\ san_pc = "once"
    /\ san_twice' = sanitize(san_out)
    /\ san_pc' = "twice"
    /\ UNCHANGED <<san_in, san_pieces, san_out>>
    /\ UNCHANGED parse_vars
    /\ UNCHANGED lukiwiki_vars

SanNext == SanitizeOnce \/ SanitizeTwice

SanSpec == SanInit /\ [][SanNext]_vars

-----------------------------------------------------------------------------
(* Claims about the sanitizer, checked under SanSpec.                      *)

Sanitized == san_pc \in {"once", "twice"}

\* the '&' at index i of s is followed by a ';' somewhere
HasSemicolon(s, i) == \E j \in (i + 1)..Len(s) : s[j] = ";"

\* the index of the first ';' after index i
FirstSemicolon(s, i) ==
    CHOOSE j \in (i + 1)..Len(s) :
        s[j] = ";" /\ \A k \in (i + 1)..(j - 1) : s[k] # ";"

\* the body of the candidate '&' body ';' that starts at index i
BodyAt(s, i) == SubSeq(s, i + 1, FirstSemicolon(s, i) - 1)

IsAsciiAlnum(c) == c \in LowerCase \cup UpperCase \cup DecDigit

DecimalBody(b) ==
    /\ Len(b) >= 2
    /\ b[1] = "#"
    /\ \A k \in 2..Len(b) : b[k] \in DecDigit

HexBody(b) ==
    /\ Len(b) >= 3
    /\ b[1] = "#"
    /\ b[2] \in {"x", "X"}
    /\ \A k \in 3..Len(b) :
           b[k] \in DecDigit \cup {"a","b","c","d","e","f","A","B","C","D","E","F"}

RecognizedBody(b) == b \in NamedEntities \/ DecimalBody(b) \/ HexBody(b)

\* C1: the output of sanitize holds no raw '<' and no raw '>': every '<' of
\* the input is emitted as "&lt;" and every '>' as "&gt;", whatever
\* surrounds it.
C1_NoRawAngle ==
    Sanitized =>
        /\ \A j \in 1..Len(san_out) : san_out[j] \notin {"<", ">"}
        /\ \A i \in 1..Len(san_in) :
               /\ san_in[i] = "<" => san_pieces[i] = Lt
               /\ san_in[i] = ">" => san_pieces[i] = Gt
        /\ san_out = Flatten(san_pieces)

C1_Witness ==
    /\ san_pc = "once"
    /\ \E i \in 1..(Len(san_in) - 1) :
           /\ san_in[i] = "&"
           /\ san_in[i + 1] \in {"<", ">"}
           /\ HasSemicolon(san_in, i)
    /\ Contains(san_out, Gt)
    /\ Contains(san_out, Lt)

\* C2: for every candidate '&' body ';' whose body has more than 10
\* characters or holds a character that is neither ASCII alphanumeric nor
\* '#', sanitize escapes the leading '&' to "&amp;".
C2_LongOrInvalidEscaped ==
    Sanitized =>
        \A i \in 1..Len(san_in) :
            (/\ san_in[i] = "&"
             /\ HasSemicolon(san_in, i)
             /\ LET b == BodyAt(san_in, i)
                IN  \/ Len(b) > 10
                    \/ \E k \in 1..Len(b) : ~IsAsciiAlnum(b[k]) /\ b[k] # "#")
            => san_pieces[i] = Amp

\* C3: sanitize keeps the '&' of a recognized reference (an allow-listed
\* name, '#' digits+, '#x'/'#X' hexdigits+) whose body is within the length
\* bound, and so returns "&" e ";" unchanged for every allow-listed e; an
\* '&' with no terminating ';' or with a body that is no such reference
\* (empty, '#', '#x', a name outside the allow-list) is emitted as "&amp;".
C3_EntitiesPreserved ==
    Sanitized =>
        /\ \A i \in 1..Len(san_in) :
               san_in[i] = "&" =>
                   IF HasSemicolon(san_in, i)
                   THEN LET b == BodyAt(san_in, i)
                        IN  /\ (RecognizedBody(b) /\ Len(b) <= EntityLenLimit)
                                => san_pieces[i] = <<"&">>
                            /\ ~RecognizedBody(b) => san_pieces[i] = Amp
                   ELSE san_pieces[i] = Amp
        /\ \A e \in NamedEntities :
               san_in = <<"&">> \o e \o <<";">> => san_out = san_in

C3_Witness ==
    /\ san_pc = "once"
    /\ san_in = <<"&", "#", "1", "2", "3", ";", " ", "&", "#", "x", "7", "B", ";">>
    /\ san_out = <<"&", "#", "1", "2", "3", ";", " ", "&", "#", "x", "7", "B", ";">>

\* out[j..] is the concatenation of one image per character of s[i..]
RECURSIVE ImagesFrom(_, _, _, _)
ImagesFrom(s, i, out, j) ==
    IF i > Len(s) THEN j = Len(out) + 1
    ELSE CASE s[i] = "<" -> MatchAt(Lt, out, j) /\ ImagesFrom(s, i + 1, out, j + 4)
           [] s[i] = ">" -> MatchAt(Gt, out, j) /\ ImagesFrom(s, i + 1, out, j + 4)
           [] s[i] = "&" ->
                  \/ MatchAt(Amp, out, j) /\ ImagesFrom(s, i + 1, out, j + 5)
                  \/ MatchAt(<<"&">>, out, j) /\ ImagesFrom(s, i + 1, out, j + 1)
           [] OTHER -> MatchAt(<<s[i]>>, out, j) /\ ImagesFrom(s, i + 1, out, j + 1)

\* C4: the output of sanitize is the concatenation, in input order, of one
\* image per input character: the character itself unless it is '<', '>' or
\* '&', whose images are "&lt;", "&gt;" and "&" or "&amp;"; so a text with
\* none of the three is returned unchanged.
C4_PerCharacterRewrite ==
    Sanitized =>
        /\ ImagesFrom(san_in, 1, san_out, 1)
        /\ (\A i \in 1..Len(san_in) : san_in[i] \notin {"<", ">", "&"})
               => san_out = san_in

C4_Witness ==
    /\ san_pc = "once"
    /\ san_in = <<"&", "i", "n", "v", "a", "l", "i", "d", ";">>
    /\ san_out = <<"&", "a", "m", "p", ";", "i", "n", "v", "a", "l", "i", "d", ";">>

\* C10: sanitize is idempotent: sanitizing its output changes nothing.
C10_Idempotent == san_pc = "twice" => san_twice = san_out

C10_Witness ==
    /\ san_pc = "twice"
    /\ Contains(san_in, <<"&">>)
    /\ Contains(san_in, <<"<">>)
    /\ san_out # san_in
    /\ san_twice = san_out

-----------------------------------------------------------------------------
(* The collaborators of parse_with_frontmatter whose code is in modules    *)
(* frontmatter, lukiwiki and parser: modelled from the specification       *)
(* (sections 3, 4.3, 4.4, 4.5 and 6).                                      *)

None == <<>>
Some(x) == <<x>>

FmOpen == <<"-", "-", "-", "\n">>
FmClose == <<"\n", "-", "-", "-", "\n">>

\* the index at which the closing delimiter of a frontmatter header starts
FmCloseAt(s) ==
    CHOOSE i \in Len(FmOpen)..Len(s) :
        /\ MatchAt(FmClose, s, i)
        /\ \A k \in Len(FmOpen)..(i - 1) : ~MatchAt(FmClose, s, k)

\* frontmatter::extract_frontmatter: (Option<Frontmatter>, body); a missing or
\* unterminated header is "no frontmatter" and the whole input is the body
extract_frontmatter(s) ==
    IF /\ MatchAt(FmOpen, s, 1)
       /\ \E i \in Len(FmOpen)..Len(s) : MatchAt(FmClose, s, i)
    THEN LET c == FmCloseAt(s)
         IN  [frontmatter |-> Some(SubSeq(s, Len(FmOpen) + 1, c - 1)),
              content |-> From(s, c + Len(FmClose))]
    ELSE [frontmatter |-> None, content |-> s]

\* Name := identifier-character+
IsNameChar(c) == c \in LowerCase \cup UpperCase \cup DecDigit \cup {"_"}

\* the index after the run of identifier characters that starts at i
RECURSIVE NameEnd(_, _)
NameEnd(s, i) == IF i <= Len(s) /\ IsNameChar(s[i]) THEN NameEnd(s, i + 1) ELSE i

\* the first index >= from at which c stands, or 0
IndexOf(s, c, from) == IndexOfAny(s, {c}, from)

\* the texts between the ',' of s, in order
RECURSIVE SplitComma(_)
SplitComma(s) ==
    LET c == IndexOf(s, ",", 1)
    IN  IF c = 0 THEN <<s>>
        ELSE <<SubSeq(s, 1, c - 1)>> \o SplitComma(From(s, c + 1))

\* ArgList := Arg (',' Arg)*, each Arg trimmed; nothing between the
\* parentheses is the empty list
ArgList(s) ==
    IF Trim(s) = <<>> THEN <<>>
    ELSE LET parts == SplitComma(s) IN [k \in 1..Len(parts) |-> Trim(parts[k])]

NoMatch == [ok |-> FALSE]

\* the first '}' at or after from that no backslash escapes, or 0
RECURSIVE InlineClose(_, _)
InlineClose(s, from) ==
    LET j == IndexOfAny(s, {"\\", "}"}, from)
    IN  IF j = 0 THEN 0
        ELSE IF s[j] = "\\" THEN InlineClose(s, j + 2)
        ELSE j

\* the index of the "}}" that closes a block Content opened before from, the
\* nesting depth being depth; 0 when it is unterminated or unbalanced
RECURSIVE BlockClose(_, _, _)
BlockClose(s, from, depth) ==
    LET j == IndexOfAny(s, {"{", "}"}, from)
    IN  IF j = 0 THEN 0
        ELSE IF s[j] = "{" THEN BlockClose(s, j + 1, depth + 1)
        ELSE IF depth > 0 THEN BlockClose(s, j + 1, depth - 1)
        ELSE IF j < Len(s) /\ s[j + 1] = "}" THEN j
        ELSE 0

\* the tail of an inline invocation after its Args: ('{' Content '}')? ';'
InlineTail(s, i, name, args, p) ==
    IF p <= Len(s) /\ s[p] = "{"
    THEN LET e == InlineClose(s, p + 1)
         IN  IF e # 0 /\ e < Len(s) /\ s[e + 1] = ";"
             THEN [ok |-> TRUE, end |-> e + 2,
                   inv |-> [kind |-> "inline", name |-> name, args |-> args,
                            content |-> Some(SubSeq(s, p + 1, e - 1)),
                            raw |-> SubSeq(s, i, e + 1)]]
             ELSE NoMatch
    ELSE IF p <= Len(s) /\ s[p] = ";"
         THEN [ok |-> TRUE, end |-> p + 1,
               inv |-> [kind |-> "inline", name |-> name, args |-> args,
                        content |-> None, raw |-> SubSeq(s, i, p)]]
         ELSE NoMatch

\* InlineInvocation := '&' Name Args? ( '{' Content '}' )? ';' at index i
MatchInline(s, i) ==
    LET n == NameEnd(s, i + 1)
        name == SubSeq(s, i + 1, n - 1)
    IN  IF n = i + 1 THEN NoMatch
        ELSE IF n <= Len(s) /\ s[n] = "("
             THEN LET close == IndexOf(s, ")", n + 1)
                  IN  IF close = 0 THEN NoMatch
                      ELSE InlineTail(s, i, name,
                                      ArgList(SubSeq(s, n + 1, close - 1)), close + 1)
             ELSE InlineTail(s, i, name, <<>>, n)

\* the tail of a block invocation after its ')': ( '{{' Content '}}' )?
BlockTail(s, i, name, args, p) ==
    IF MatchAt(<<"{", "{">>, s, p)
    THEN LET e == BlockClose(s, p + 2, 0)
         IN  IF e # 0
             THEN [ok |-> TRUE, end |-> e + 2,
                   inv |-> [kind |-> "block", name |-> name, args |-> args,
                            content |-> Some(SubSeq(s, p + 2, e - 1)),
                            raw |-> SubSeq(s, i, e + 1)]]
             ELSE NoMatch
    ELSE [ok |-> TRUE, end |-> p,
          inv |-> [kind |-> "block", name |-> name, args |-> args,
                   content |-> None, raw |-> SubSeq(s, i, p - 1)]]

\* a plausible slip: the parentheses of a block invocation are optional, as
\* the Args of an inline one are
MatchBlock_optional_parens(s, i) ==
    LET n == NameEnd(s, i + 1)
        name == SubSeq(s, i + 1, n - 1)
    IN  IF n = i + 1 THEN NoMatch
        ELSE IF n <= Len(s) /\ s[n] = "("
             THEN LET close == IndexOf(s, ")", n + 1)
                  IN  IF close = 0 THEN NoMatch
                      ELSE BlockTail(s, i, name,
                                     ArgList(SubSeq(s, n + 1, close - 1)), close + 1)
             ELSE BlockTail(s, i, name, <<>>, n)

\* BlockInvocation := '@' Name '(' ArgList? ')' ( '{{' Content '}}' )? at i
MatchBlock(s, i) ==
    LET n == NameEnd(s, i + 1)
        name == SubSeq(s, i + 1, n - 1)
    IN  IF n = i + 1 THEN NoMatch
        ELSE IF n <= Len(s) /\ s[n] = "("
             THEN LET close == IndexOf(s, ")", n + 1)
                  IN  IF close = 0 THEN NoMatch
                      ELSE BlockTail(s, i, name,
                                     ArgList(SubSeq(s, n + 1, close - 1)), close + 1)
             ELSE NoMatch

\* the decimal digits of a counter value
RECURSIVE DecimalText(_)
DecimalText(n) ==
    IF n < 10 THEN <<DigitCycle[((n + 9) % 10) + 1]>>
    ELSE DecimalText(n \div 10) \o <<DigitCycle[(((n % 10) + 9) % 10) + 1]>>

\* the characters U+0020..U+007E in code order (U+0060 by its escape)
CodePage ==
    <<" ", "!", "\"", "#", "$", "%", "&", "'", "(", ")", "*", "+", ",", "-", ".", "/", "0", "1", "2", "3", "4", "5", "6", "7", "8", "9", ":", ";", "<", "=", ">", "?", "@", "A", "B", "C", "D", "E", "F", "G", "H", "I", "J", "K", "L", "M", "N", "O", "P", "Q", "R", "S", "T", "U", "V", "W", "X", "Y", "Z", "[">> \o <<"\\">>
        \o <<"]", "^", "_">> \o <<"\\u0060">> \o <<"a", "b", "c", "d", "e", "f", "g", "h", "i", "j", "k", "l", "m", "n", "o", "p", "q", "r", "s", "t", "u", "v", "w", "x", "y", "z", "{", "|", "}", "~">>

HexDigits == <<"0", "1", "2", "3", "4", "5", "6", "7", "8", "9", "a", "b", "c", "d", "e", "f">>

\* the code of a character of the model
CodeOf(c) ==
    CASE c = Control -> 1
      [] c = "\n" -> 10
      [] c = EAcute -> 233
      [] OTHER -> 31 + (CHOOSE k \in 1..Len(CodePage) : CodePage[k] = c)

\* a text as alphanumeric characters only: two hex digits per character
Armor(t) ==
    [k \in 1..(2 * Len(t)) |->
        LET code == CodeOf(t[(k + 1) \div 2])
        IN  IF k % 2 = 1 THEN HexDigits[(code \div 16) + 1]
            ELSE HexDigits[(code % 16) + 1]]

\* ConflictToken: between two control characters the counter, 'h' and the
\* invocation's own text in alphanumeric form; inert to the sanitizer and the
\* renderer, and different for different invocations
Token(n, inv) ==
    <<Control>> \o DecimalText(n) \o <<"h">> \o Armor(inv.raw) \o <<Control>>

\* the Encoder's scan from index i: out is the text written so far, tbl the
\* invocations recorded so far (entry k got the counter k - 1); the
\* characters before the next '&' or '@' are copied as they are
RECURSIVE EncodeFrom(_, _, _, _)
EncodeFrom(s, i, out, tbl) ==
    LET c == IndexOfAny(s, {"&", "@"}, i)
    IN  IF c = 0 THEN [text |-> out \o From(s, i), table |-> tbl]
        ELSE LET m == IF s[c] = "&" THEN MatchInline(s, c) ELSE MatchBlock(s, c)
                 copied == out \o SubSeq(s, i, c - 1)
             IN  IF m.ok
                 THEN EncodeFrom(s, m.end, copied \o Token(Len(tbl), m.inv),
                                 Append(tbl, m.inv))
                 ELSE EncodeFrom(s, c + 1, Append(copied, s[c]), tbl)

\* the call-scoped table the Encoder builds while it scans s
invocation_table(s) == EncodeFrom(s, 1, <<>>, <<>>).table

\* lukiwiki::conflict_resolver::preprocess_conflicts: the token-bearing text
preprocess_conflicts(s) == EncodeFrom(s, 1, <<>>, <<>>).text

\* the lines of s
RECURSIVE SplitLines(_)
SplitLines(s) ==
    LET n == IndexOf(s, "\n", 1)
    IN  IF n = 0 THEN <<s>>
        ELSE <<SubSeq(s, 1, n - 1)>> \o SplitLines(From(s, n + 1))

\* the level of the ATX heading that line opens: 1..6 '#' and a space; else 0
HeadingLevel(line) ==
    IF \E n \in 1..6 :
           /\ Len(line) > n
           /\ \A k \in 1..n : line[k] = "#"
           /\ line[n + 1] = " "
    THEN CHOOSE n \in 1..6 :
             /\ Len(line) > n
             /\ \A k \in 1..n : line[k] = "#"
             /\ line[n + 1] = " "
    ELSE 0

\* the inline content of a block: "**x**" is strong, "*x*" is emphasis
RECURSIVE RenderInline(_, _)
RenderInline(t, i) ==
    LET a == IndexOf(t, "*", i)
    IN  IF a = 0 THEN From(t, i)
        ELSE LET strong == MatchAt(<<"*", "*">>, t, a)
                 b == IF strong THEN Find(t, <<"*", "*">>, a + 2) ELSE IndexOf(t, "*", a + 1)
             IN  IF b = 0 THEN SubSeq(t, i, a) \o RenderInline(t, a + 1)
                 ELSE IF strong
                      THEN SubSeq(t, i, a - 1) \o <<"<", "s", "t", "r", "o", "n", "g", ">">>
                               \o SubSeq(t, a + 2, b - 1) \o <<"<", "/", "s", "t", "r", "o", "n", "g", ">">>
                               \o RenderInline(t, b + 2)
                      ELSE SubSeq(t, i, a - 1) \o <<"<", "e", "m", ">">>
                               \o SubSeq(t, a + 1, b - 1) \o <<"<", "/", "e", "m", ">">>
                               \o RenderInline(t, b + 1)

\* the blocks of the lines from index i on; para is the open paragraph
RECURSIVE RenderBlocks(_, _, _)
RenderBlocks(lines, i, para) ==
    LET close == IF para = <<>> THEN <<>>
                 ELSE <<"<", "p", ">">> \o RenderInline(para, 1) \o <<"<", "/", "p", ">", "\n">>
    IN  IF i > Len(lines) THEN close
        ELSE LET line == Trim(lines[i])
                 level == HeadingLevel(line)
             IN  IF line = <<>> THEN close \o RenderBlocks(lines, i + 1, <<>>)
                 ELSE IF level > 0
                      THEN close \o <<"<", "h">> \o DecimalText(level) \o <<">">>
                               \o RenderInline(Trim(From(line, level + 2)), 1)
                               \o <<"<", "/", "h">> \o DecimalText(level) \o <<">", "\n">>
                               \o RenderBlocks(lines, i + 1, <<>>)
                      ELSE RenderBlocks(lines, i + 1,
                                        IF para = <<>> THEN line
                                        ELSE para \o <<"\n">> \o line)

\* parser::parse_to_html at its boundary: the external CommonMark renderer on
\* headings, paragraphs, strong and emphasis
parse_to_html(s) == RenderBlocks(SplitLines(s), 1, <<>>)

\* one character of an argument inside the single-quoted data-args value
AttrChar(c) ==
    CASE c = "'" -> <<"&", "#", "3", "9", ";">>
      [] c = "\"" -> <<"\\", "\"">>
      [] c = "\\" -> <<"\\", "\\">>
      [] OTHER -> <<c>>

\* an argument as a JSON string: one sanitizer pass, then the attribute and
\* JSON escapes
JsonString(arg) ==
    LET t == sanitize(arg)
    IN  <<"\"">> \o Flatten([k \in 1..Len(t) |-> AttrChar(t[k])]) \o <<"\"">>

RECURSIVE JoinComma(_)
JoinComma(ss) ==
    IF ss = <<>> THEN <<>>
    ELSE IF Len(ss) = 1 THEN ss[1]
    ELSE ss[1] \o <<",">> \o JoinComma(Tail(ss))

\* jsonArgs: the arguments as a JSON array of strings
JsonArgs(args) ==
    <<"[">> \o JoinComma([k \in 1..Len(args) |-> JsonString(args[k])]) \o <<"]">>

\* a plausible slip: an invocation with content is emitted self-closing too
PluginHtml_always_self_closing(inv) ==
    LET tag == IF inv.kind = "inline" THEN <<"s", "p", "a", "n">> ELSE <<"d", "i", "v">>
    IN  <<"<">> \o tag \o <<" ", "c", "l", "a", "s", "s", "=", "\"", "p", "l", "u", "g", "i", "n", "-">> \o inv.name \o <<"\"", " ", "d", "a", "t", "a", "-", "a", "r", "g", "s", "=", "'">>
            \o JsonArgs(inv.args) \o <<"'", " ", "/", ">">>

\* the fragment of one invocation (the table of section 4.5)
PluginHtml(inv) ==
    LET tag == IF inv.kind = "inline" THEN <<"s", "p", "a", "n">> ELSE <<"d", "i", "v">>
        open == <<"<">> \o tag \o <<" ", "c", "l", "a", "s", "s", "=", "\"", "p", "l", "u", "g", "i", "n", "-">> \o inv.name
                    \o <<"\"", " ", "d", "a", "t", "a", "-", "a", "r", "g", "s", "=", "'">> \o JsonArgs(inv.args) \o <<"'">>
    IN  IF inv.content = None
        THEN open \o <<" ", "/", ">">>
        ELSE open \o <<">">> \o sanitize(inv.content[1]) \o <<"<", "/">> \o tag \o <<">">>

\* the entry of the table tbl whose token stands in h at index a, or 0
KnownTokenAt(h, tbl, a) ==
    IF \E k \in 1..Len(tbl) : MatchAt(Token(k - 1, tbl[k]), h, a)
    THEN CHOOSE k \in 1..Len(tbl) : MatchAt(Token(k - 1, tbl[k]), h, a)
    ELSE 0

\* the Decoder's scan of the HTML from index i: every occurrence of a token
\* of the table tbl replaced by the fragment of its invocation, all other
\* text kept (a lookup of the known tokens, not a grammar)
RECURSIVE DecodeFrom(_, _, _)
DecodeFrom(h, tbl, i) ==
    LET a == IndexOf(h, Control, i)
    IN  IF a = 0 THEN From(h, i)
        ELSE LET k == KnownTokenAt(h, tbl, a)
             IN  IF k # 0
                 THEN SubSeq(h, i, a - 1) \o PluginHtml(tbl[k])
                          \o DecodeFrom(h, tbl, a + Len(Token(k - 1, tbl[k])))
                 ELSE SubSeq(h, i, a) \o DecodeFrom(h, tbl, a + 1)

\* the occurrences of the tokens of the table tbl in h from index i on, in
\* the order of the Decoder's scan
RECURSIVE TokensFrom(_, _, _)
TokensFrom(h, tbl, i) ==
    LET a == IndexOf(h, Control, i)
    IN  IF a = 0 THEN <<>>
        ELSE LET k == KnownTokenAt(h, tbl, a)
             IN  IF k # 0
                 THEN <<Token(k - 1, tbl[k])>>
                          \o TokensFrom(h, tbl, a + Len(Token(k - 1, tbl[k])))
                 ELSE TokensFrom(h, tbl, a + 1)

\* lukiwiki::apply_lukiwiki_syntax: the post-processing of the rendered HTML,
\* its known tokens (those of the running call's table) decoded
apply_lukiwiki_syntax(h) == DecodeFrom(h, conflict_table, 1)

-----------------------------------------------------------------------------
(* src/src/lib.rs: parse_with_frontmatter, parse and parse_wiki.           *)

\* the stages of parse_with_frontmatter in the order spec.md names them
StageOrder == <<"extract", "encode", "sanitize", "render", "decode", "assemble">>

\* a plausible slip: the input is sanitized before the plugin spans are encoded
StageBefore_sanitize_first(stage) ==
    CASE stage = "extract" -> "start"
      [] stage = "sanitize" -> "extract"
      [] stage = "encode" -> "sanitize"
      [] stage = "render" -> "encode"
      [] stage = "decode" -> "render"
      [] stage = "assemble" -> "decode"

\* the statement that precedes each statement of parse_with_frontmatter's body
StageBefore(stage) ==
    CASE stage = "extract" -> "start"
      [] stage = "encode" -> "extract"
      [] stage = "sanitize" -> "encode"
      [] stage = "render" -> "sanitize"
      [] stage = "decode" -> "render"
      [] stage = "assemble" -> "decode"

\* the documents of the model: an optional frontmatter header, then a body of
\* segments on one line
Headers == { <<>>, <<"-", "-", "-", "\n", "t", "i", "t", "l", "e", ":", " ", "&", "b", "r", ";", "\n", "-", "-", "-", "\n">> }

Segments ==
    { <<"&", "h", "i", "g", "h", "l", "i", "g", "h", "t", "(", "y", "e", "l", "l", "o", "w", ")", "{", "i", "m", "p", "o", "r", "t", "a", "n", "t", " ", "t", "e", "x", "t", "}", ";">>,
      <<"&", "i", "c", "o", "n", "(", "m", "d", "i", "-", "p", "e", "n", "c", "i", "l", ")", ";">>,
      <<"&", "b", "r", ";">>,
      <<"@", "c", "o", "d", "e", "(", "r", "u", "s", "t", ")", "{", "{", " ", "f", "n", " ", "m", "a", "i", "n", "(", ")", " ", "{", "}", " ", "}", "}">>,
      <<"@", "t", "o", "c", "(", ")">>,
      <<"@", "f", "e", "e", "d", "(", "h", "t", "t", "p", "s", ":", "/", "/", "e", "x", "a", "m", "p", "l", "e", ".", "c", "o", "m", "/", "f", "e", "e", "d", ".", "a", "t", "o", "m", ",", " ", "1", "0", ")">>,
      <<"T", "h", "i", "s", " ", "i", "s", " ", "@", "m", "e", "n", "t", "i", "o", "n", " ", "w", "i", "t", "h", "o", "u", "t", " ", "p", "a", "r", "e", "n", "s">>,
      <<"a", "&", "n", "b", "s", "p", ";", "b">>,
      <<"<", "b", ">", "A", " ", "&", " ", "B", "<", "/", "b", ">">>,
      Token(0, MatchInline(<<"&", "b", "r", ";">>, 1).inv),
      <<"@", "a", "(", "b", ")", "{", "{", " ", "c">>,
      <<"&", "u", "(", "<", "i", ">", ",", " ", "'", "q", "'", ")", "{", "x", "<", "y", "}", ";">> }

RECURSIVE Bodies_of(_)
Bodies_of(n) ==
    IF n = 0 THEN {<<>>}
    ELSE LET shorter == Bodies_of(n - 1)
         IN  shorter \cup {IF b = <<>> THEN s ELSE b \o <<" ">> \o s :
                               b \in shorter, s \in Segments}

\* the documents of the crate's documentation examples and tests
DocExamples ==
    { <<"#", " ", "H", "e", "a", "d", "i", "n", "g", "\n", "\n", "*", "*", "B", "o", "l", "d", "*", "*", " ", "a", "n", "d", " ", "*", "i", "t", "a", "l", "i", "c", "*">>,
      <<"-", "-", "-", "\n", "t", "i", "t", "l", "e", ":", " ", "T", "e", "s", "t", "\n", "-", "-", "-", "\n", "\n", "#", " ", "C", "o", "n", "t", "e", "n", "t">>,
      <<"#", " ", "H", "e", "l", "l", "o", " ", "W", "o", "r", "l", "d", "\n", "\n", "T", "h", "i", "s", " ", "i", "s", " ", "*", "*", "b", "o", "l", "d", "*", "*", " ", "t", "e", "x", "t", ".">>,
      <<"H", "e", "l", "l", "o", " ", "W", "o", "r", "l", "d">>,
      <<"<", "s", "c", "r", "i", "p", "t", ">", "a", "l", "e", "r", "t", "(", "'", "x", "s", "s", "'", ")", "<", "/", "s", "c", "r", "i", "p", "t", ">">> }

Documents == {h \o b : h \in Headers, b \in Bodies_of(MaxSegs)} \cup DocExamples

SanIdle ==
    /\ san_pc = "off"
    /\ san_in = <<>>
    /\ san_pieces = <<>>
    /\ san_out = <<>>
    /\ san_twice = <<>>

Init ==
    /\ pc = "start"
    /\ input \in Documents
    /\ frontmatter_data = None
    /\ content = <<>>
    /\ preprocessed = <<>>
    /\ sanitized = <<>>
    /\ html = <<>>
    /\ final_html = <<>>
    /\ stages = <<>>
    /\ result = <<>>
    /\ conflict_table = <<>>
    /\ SanIdle

\* Step 0: frontmatter::extract_frontmatter(input)
ExtractFrontmatter ==
    /\ pc = StageBefore("extract")
    /\ LET r == extract_frontmatter(input)
       IN  /\ frontmatter_data' = r.frontmatter
           /\ content' = r.content
    /\ pc' = "extract"
    /\ stages' = Append(stages, "extract")
    /\ UNCHANGED <<input, preprocessed, sanitized, html, final_html,
                   result>>
    /\ UNCHANGED lukiwiki_vars
    /\ UNCHANGED san_vars

\* Step 1: lukiwiki::conflict_resolver::preprocess_conflicts(&content); the
\* Encoder returns the token-bearing text and keeps the table it built
PreprocessConflicts ==
    /\ pc = StageBefore("encode")
    /\ preprocessed' = preprocess_conflicts(content)
    /\ conflict_table' = invocation_table(content)
    /\ pc' = "encode"
    /\ stages' = Append(stages, "encode")
    /\ UNCHANGED <<input, frontmatter_data, content, sanitized, html, final_html,
                   result>>
    /\ UNCHANGED san_vars

\* Step 2: sanitizer::sanitize(&preprocessed)
Sanitize ==
    /\ pc = StageBefore("sanitize")
    /\ sanitized' = sanitize(preprocessed)
    /\ pc' = "sanitize"
    /\ stages' = Append(stages, "sanitize")
    /\ UNCHANGED <<input, frontmatter_data, content, preprocessed, html,
                   final_html, result>>
    /\ UNCHANGED lukiwiki_vars
    /\ UNCHANGED san_vars

\* Step 3: parser::parse_to_html(&sanitized, &options)
ParseToHtml ==
    /\ pc = StageBefore("render")
    /\ html' = parse_to_html(sanitized)
    /\ pc' = "render"
    /\ stages' = Append(stages, "render")
    /\ UNCHANGED <<input, frontmatter_data, content, preprocessed,
                   sanitized, final_html, result>>
    /\ UNCHANGED lukiwiki_vars
    /\ UNCHANGED san_vars

\* Step 4: lukiwiki::apply_lukiwiki_syntax(&html)
ApplyLukiwikiSyntax ==
    /\ pc = StageBefore("decode")
    /\ final_html' = apply_lukiwiki_syntax(html)
    /\ pc' = "decode"
    /\ stages' = Append(stages, "decode")
    /\ UNCHANGED <<input, frontmatter_data, content, preprocessed,
                   sanitized, html, result>>
    /\ UNCHANGED lukiwiki_vars
    /\ UNCHANGED san_vars

\* ParseResult { html: final_html, frontmatter: frontmatter_data }; the call
\* ends and its table is discarded
Assemble ==
    /\ pc = StageBefore("assemble")
    /\ result' = [html |-> final_html, frontmatter |-> frontmatter_data]
    /\ conflict_table' = <<>>
    /\ pc' = "assemble"
    /\ stages' = Append(stages, "assemble")
    /\ UNCHANGED <<input, frontmatter_data, content, preprocessed,
                   sanitized, html, final_html>>
    /\ UNCHANGED san_vars

\* parse: result.html of parse_with_frontmatter(input)
Parse ==
    /\ pc = "assemble"
    /\ result' = result.html
    /\ pc' = "parse"
    /\ UNCHANGED <<input, frontmatter_data, content, preprocessed,
                   sanitized, html, final_html, stages>>
    /\ UNCHANGED lukiwiki_vars
    /\ UNCHANGED san_vars

\* parse_wiki: parse(input)
ParseWiki ==
    /\ pc = "parse"
    /\ pc' = "parse_wiki"
    /\ UNCHANGED <<input, frontmatter_data, content, preprocessed,
                   sanitized, html, final_html, stages, result>>
    /\ UNCHANGED lukiwiki_vars
    /\ UNCHANGED san_vars

Next ==
    \/ ExtractFrontmatter
    \/ PreprocessConflicts
    \/ Sanitize
    \/ ParseToHtml
    \/ ApplyLukiwikiSyntax
    \/ Assemble
    \/ Parse
    \/ ParseWiki

Spec == Init /\ [][Next]_vars

-----------------------------------------------------------------------------
(* Claims about the parse pipeline, checked under Spec.                    *)

Returned == pc \in {"assemble", "parse", "parse_wiki"}
Encoded == pc \notin {"off", "start", "extract"}
SanitizedBody == pc \notin {"off", "start", "extract", "encode"}
Decoded == pc \in {"decode", "assemble", "parse", "parse_wiki"}

\* the sum of f over 1..n
RECURSIVE SumTo(_, _)
SumTo(f, n) == IF n = 0 THEN 0 ELSE f[n] + SumTo(f, n - 1)

\* C5: every call runs extract frontmatter, encode (on the body only),
\* sanitize, render, decode and assemble exactly once each and in this order;
\* parse and parse_wiki only hand on the html of that one run.
C5_StageOrder ==
    /\ Len(stages) <= Len(StageOrder)
    /\ stages = SubSeq(StageOrder, 1, Len(stages))
    /\ Returned => stages = StageOrder
    /\ pc \in {"parse", "parse_wiki"} => result = final_html
    /\ Encoded =>
           LET tbl == invocation_table(content)
           IN  Len(content) = Len(preprocessed)
                   + SumTo([k \in 1..Len(tbl) |->
                                Len(tbl[k].raw) - Len(Token(k - 1, tbl[k]))],
                           Len(tbl))

C5_Witness ==
    /\ pc = "parse_wiki"
    /\ frontmatter_data # None
    /\ Len(invocation_table(content)) = 2
    /\ stages = StageOrder
    /\ result = final_html

\* C6: the sanitized text holds a token only where the encoder put one: the
\* tokens of one call differ from each other, each occurs exactly once, and
\* the occurrences the decoder's lookup finds are the ones the encoder put,
\* so the decoder substitutes no fragment at a place the author wrote.
C6_NoTokenCollision ==
    SanitizedBody =>
        LET tbl == invocation_table(content)
        IN  /\ \A j, k \in 1..Len(tbl) :
                   j # k => Token(j - 1, tbl[j]) # Token(k - 1, tbl[k])
            /\ \A k \in 1..Len(tbl) : Count(sanitized, Token(k - 1, tbl[k])) = 1
            /\ TokensFrom(sanitized, tbl, 1) =
                   [k \in 1..Len(tbl) |-> Token(k - 1, tbl[k])]

\* every '@' of s starts a bare '@Name' that no '(' follows
OnlyBareAt(s) ==
    \A i \in 1..Len(s) :
        s[i] = "@" =>
            /\ i < Len(s)
            /\ IsNameChar(s[i + 1])
            /\ \E j \in (i + 2)..(Len(s) + 1) :
                   /\ \A k \in (i + 1)..(j - 1) : IsNameChar(s[k])
                   /\ (j = Len(s) + 1 \/ (~IsNameChar(s[j]) /\ s[j] # "("))

\* the bare '@Name' texts of s
BareAtTexts(s) ==
    {SubSeq(s, p[1], p[2]) :
        p \in {q \in (1..Len(s)) \X (1..Len(s)) :
                  /\ s[q[1]] = "@"
                  /\ q[2] > q[1]
                  /\ \A k \in (q[1] + 1)..q[2] : IsNameChar(s[k])
                  /\ (q[2] = Len(s) \/ ~IsNameChar(s[q[2] + 1]))}}

\* no '&' of s can start an inline invocation: none has a ';' after it
NoInlineCandidate(s) == \A i \in 1..Len(s) : s[i] = "&" => ~HasSemicolon(s, i)

\* C7: in a body whose '@' are all bare '@Name' with no '(' after the name
\* (and that has no inline invocation) the encoder creates no token, the
\* '@Name' text is in the output and the output has no "plugin-" class.
C7_BareAtIsText ==
    (Encoded /\ OnlyBareAt(content) /\ NoInlineCandidate(content)) =>
        /\ invocation_table(content) = <<>>
        /\ preprocessed = content
        /\ Decoded =>
               /\ \A t \in BareAtTexts(content) : Contains(final_html, t)
               /\ ~Contains(final_html, <<"p", "l", "u", "g", "i", "n", "-">>)

C7_Witness ==
    /\ pc = "parse"
    /\ content = <<"T", "h", "i", "s", " ", "i", "s", " ", "@", "m", "e", "n", "t", "i", "o", "n", " ", "w", "i", "t", "h", "o", "u", "t", " ", "p", "a", "r", "e", "n", "s", " ", "<", "b", ">", "A", " ", "&", " ", "B", "<", "/", "b", ">">>
    /\ Contains(result, <<"@", "m", "e", "n", "t", "i", "o", "n">>)
    /\ ~Contains(result, <<"p", "l", "u", "g", "i", "n", "-">>)

\* s ends with pat
EndsWith(s, pat) == MatchAt(pat, s, Len(s) - Len(pat) + 1)

\* C8: the fragment of every recognized invocation is a span (inline) or a
\* div (block) of class "plugin-{name}" whose data-args is the JSON array of
\* the trimmed arguments in order ('[]' for none), self-closing exactly when
\* no content was captured and a container of the content otherwise; the
\* fragment is in the output and the invocation's own text is not.
C8_PluginShape ==
    Decoded =>
        /\ \A k \in 1..Len(invocation_table(content)) :
               LET inv == invocation_table(content)[k]
                   f == PluginHtml(inv)
                   tag == IF inv.kind = "inline" THEN <<"s", "p", "a", "n">> ELSE <<"d", "i", "v">>
               IN  /\ MatchAt(<<"<">> \o tag \o <<" ", "c", "l", "a", "s", "s", "=", "\"", "p", "l", "u", "g", "i", "n", "-">> \o inv.name
                                  \o <<"\"", " ", "d", "a", "t", "a", "-", "a", "r", "g", "s", "=", "'", "[">>, f, 1)
                   /\ Count(f, <<"d", "a", "t", "a", "-", "a", "r", "g", "s", "=">>) = 1
                   /\ \A a \in 1..Len(inv.args) : inv.args[a] = Trim(inv.args[a])
                   /\ inv.args = <<>> => Contains(f, <<" ", "d", "a", "t", "a", "-", "a", "r", "g", "s", "=", "'", "[", "]", "'">>)
                   /\ (inv.content = None) <=> EndsWith(f, <<"]", "'", " ", "/", ">">>)
                   /\ (inv.content # None) <=> EndsWith(f, <<"<", "/">> \o tag \o <<">">>)
                   /\ inv.content # None =>
                          Contains(f, <<"]", "'", ">">> \o sanitize(inv.content[1])
                                          \o <<"<", "/">> \o tag \o <<">">>)
                   /\ Contains(final_html, f)
                   /\ ~Contains(final_html, inv.raw)
        /\ input = <<"&", "h", "i", "g", "h", "l", "i", "g", "h", "t", "(", "y", "e", "l", "l", "o", "w", ")", "{", "i", "m", "p", "o", "r", "t", "a", "n", "t", " ", "t", "e", "x", "t", "}", ";">> =>
               final_html =
                   <<"<", "p", ">", "<", "s", "p", "a", "n", " ", "c", "l", "a", "s", "s", "=", "\"", "p", "l", "u", "g", "i", "n", "-", "h", "i", "g", "h", "l", "i", "g", "h", "t", "\"", " ", "d", "a", "t", "a", "-", "a", "r", "g", "s", "=", "'", "[", "\"", "y", "e", "l", "l", "o", "w", "\"", "]", "'", ">", "i", "m", "p", "o", "r", "t", "a", "n", "t", " ", "t", "e", "x", "t", "<", "/", "s", "p", "a", "n", ">", "<", "/", "p", ">", "\n">>
        /\ input = <<"&", "i", "c", "o", "n", "(", "m", "d", "i", "-", "p", "e", "n", "c", "i", "l", ")", ";">> =>
               final_html =
                   <<"<", "p", ">", "<", "s", "p", "a", "n", " ", "c", "l", "a", "s", "s", "=", "\"", "p", "l", "u", "g", "i", "n", "-", "i", "c", "o", "n", "\"", " ", "d", "a", "t", "a", "-", "a", "r", "g", "s", "=", "'", "[", "\"", "m", "d", "i", "-", "p", "e", "n", "c", "i", "l", "\"", "]", "'", " ", "/", ">", "<", "/", "p", ">", "\n">>
        /\ input = <<"@", "t", "o", "c", "(", ")">> =>
               final_html = <<"<", "p", ">", "<", "d", "i", "v", " ", "c", "l", "a", "s", "s", "=", "\"", "p", "l", "u", "g", "i", "n", "-", "t", "o", "c", "\"", " ", "d", "a", "t", "a", "-", "a", "r", "g", "s", "=", "'", "[", "]", "'", " ", "/", ">", "<", "/", "p", ">", "\n">>
        /\ input = <<"@", "c", "o", "d", "e", "(", "r", "u", "s", "t", ")", "{", "{", " ", "f", "n", " ", "m", "a", "i", "n", "(", ")", " ", "{", "}", " ", "}", "}">> =>
               final_html =
                   <<"<", "p", ">", "<", "d", "i", "v", " ", "c", "l", "a", "s", "s", "=", "\"", "p", "l", "u", "g", "i", "n", "-", "c", "o", "d", "e", "\"", " ", "d", "a", "t", "a", "-", "a", "r", "g", "s", "=", "'", "[", "\"", "r", "u", "s", "t", "\"", "]", "'", ">", " ", "f", "n", " ", "m", "a", "i", "n", "(", ")", " ", "{", "}", " ", "<", "/", "d", "i", "v", ">", "<", "/", "p", ">", "\n">>
        /\ input = <<"@", "f", "e", "e", "d", "(", "h", "t", "t", "p", "s", ":", "/", "/", "e", "x", "a", "m", "p", "l", "e", ".", "c", "o", "m", "/", "f", "e", "e", "d", ".", "a", "t", "o", "m", ",", " ", "1", "0", ")">> =>
               final_html =
                   <<"<", "p", ">", "<", "d", "i", "v", " ", "c", "l", "a", "s", "s", "=", "\"", "p", "l", "u", "g", "i", "n", "-", "f", "e", "e", "d", "\"", " ", "d", "a", "t", "a", "-", "a", "r", "g", "s", "=", "'", "[", "\"", "h", "t", "t", "p", "s", ":", "/", "/", "e", "x", "a", "m", "p", "l", "e", ".", "c", "o", "m", "/", "f", "e", "e", "d", ".", "a", "t", "o", "m", "\"", ",", "\"", "1", "0", "\"", "]", "'", " ", "/", ">", "<", "/", "p", ">", "\n">>

C8_Witness ==
    /\ pc = "decode"
    /\ LET tbl == invocation_table(content)
       IN  \E j, k \in 1..Len(tbl) :
               /\ tbl[j].kind = "inline"
               /\ tbl[j].content # None
               /\ tbl[k].kind = "block"
               /\ tbl[k].content = None
               /\ Len(tbl[k].args) = 2
               /\ Contains(final_html, PluginHtml(tbl[j]))
               /\ Contains(final_html, PluginHtml(tbl[k]))

\* the allow-listed entity references that stand in s
EntityRefs(s) == {r \in {<<"&">> \o e \o <<";">> : e \in NamedEntities} : Contains(s, r)}

\* C9: an allow-listed entity reference of a document without plugin syntax
\* reaches the final HTML as that entity: the encoder does not lift it out
\* as an inline invocation, and the output has no "plugin-" class and no
\* leftover token.
C9_EntityReachesOutput ==
    (/\ Decoded
     /\ EntityRefs(content) # {}
     /\ ~Contains(content, <<"@">>)
     /\ ~Contains(content, <<"(">>)
     /\ ~Contains(content, <<"{">>)
     /\ ~Contains(content, <<Control>>)) =>
        /\ \A r \in EntityRefs(content) : Contains(final_html, r)
        /\ invocation_table(content) = <<>>
        /\ ~Contains(final_html, <<"p", "l", "u", "g", "i", "n", "-">>)
        /\ ~Contains(final_html, <<Control>>)

=============================================================================
